---- MODULE Spec2Model ----
(***************************************************************************)
(* Model of the mock_vs_di examples.                                       *)
(*                                                                         *)
(*   di_example/app/main.py   IPokemonAPIClient with its two providers,    *)
(*                            PokemonService, the declarative Container    *)
(*                            and pokemon_service_factory                  *)
(*   mock_example/app/main.py the module-level get_all_pokemons function,  *)
(*                            the PokemonService that calls it, and the    *)
(*                            mock.patch of the test                       *)
(*                                                                         *)
(* Objects live in heaps (sequences); an object's identity is its index.   *)
(* Spec is the dependency-injection example, MockSpec the patching one.    *)
(***************************************************************************)
EXTENDS Integers, Sequences, FiniteSets, TLC

VARIABLES
    environ,      \* os.environ: the three variables the factory reads
    clients,      \* heap of IPokemonAPIClient objects
    services,     \* heap of PokemonService objects (di_example)
    containers,   \* heap of Container instances
    provided,     \* history: <<container, service>> per pokemon_service() request
    calls,        \* history of pokemon_service_factory calls, the last one may be running
    pc,           \* position of the running pokemon_service_factory call
    last,         \* the last PokemonService.get_all_pokemons() call (di_example)
    module_fn,    \* mock_example: what app.main.get_all_pokemons is bound to
    mservices,    \* mock_example: heap of PokemonService objects
    mlog          \* mock_example: history of PokemonService.get_all_pokemons() calls

vars == <<environ, clients, services, containers, provided, calls, pc, last,
          module_fn, mservices, mlog>>

diVars == <<environ, clients, services, containers, provided, calls, pc, last>>
mockVars == <<module_fn, mservices, mlog>>

\* ------------------------------------------------------------------ bounds
MaxCalls == 2
MaxServices == 3
MaxMockServices == 2
MaxMockCalls == 2

\* ------------------------------------------------------------------ values
\* Python's None, and an environment variable that is not set.
NONE == "<None>"
UNSET == "<unset>"

\* A configuration value that keeps its Python type: from_env() without as_
\* stores the variable's text, the literal default 5 is an int.
PyNone == [type |-> "NoneType", repr |-> "None"]
PyStr(s) == [type |-> "str", repr |-> s]
PyInt(s) == [type |-> "int", repr |-> s]

DEFAULT_ENV == "develop"
DEFAULT_API_URL == "https://pokeapi.co/api/v2/pokemon"
DEFAULT_TIMEOUT == PyInt("5")

\* Inputs the environment and the callers are drawn from.
AppEnvVar == {UNSET, "test", "production"}
ApiSettings == {[POKEMON_API_URL |-> UNSET, REQUEST_TIMEOUT |-> UNSET],
                [POKEMON_API_URL |-> "http://localhost:1/pokemon", REQUEST_TIMEOUT |-> "10"]}
Overrides == {NONE, "", "test", "Test", "production"}

\* ------------------------------------------------------------------ payloads
MockResults ==
    << [name |-> "bulbasaur",  url |-> "https://pokeapi.co/api/v2/pokemon/1/"],
       [name |-> "ivysaur",    url |-> "https://pokeapi.co/api/v2/pokemon/2/"],
       [name |-> "venusaur",   url |-> "https://pokeapi.co/api/v2/pokemon/3/"],
       [name |-> "charmander", url |-> "https://pokeapi.co/api/v2/pokemon/4/"],
       [name |-> "charmeleon", url |-> "https://pokeapi.co/api/v2/pokemon/5/"],
       [name |-> "charizard",  url |-> "https://pokeapi.co/api/v2/pokemon/6/"],
       [name |-> "squirtle",   url |-> "https://pokeapi.co/api/v2/pokemon/7/"],
       [name |-> "wartortle",  url |-> "https://pokeapi.co/api/v2/pokemon/8/"],
       [name |-> "blastoise",  url |-> "https://pokeapi.co/api/v2/pokemon/9/"],
       [name |-> "caterpie",   url |-> "https://pokeapi.co/api/v2/pokemon/10/"] >>

MockCount == 1292

\* PokemonAPIClientMock.get_all_pokemons: the literal payload.
MockPayload ==
    [count    |-> MockCount,
     next     |-> "https://pokeapi.co/api/v2/pokemon?offset=20&limit=20",
     previous |-> NONE,
     results  |-> MockResults]

NoPayload == [count |-> 0, next |-> NONE, previous |-> NONE, results |-> <<>>]

\* Bodies the remote API may answer with (the service never looks inside).
RemotePayloads ==
    { [count |-> 1, next |-> NONE, previous |-> NONE,
       results |-> << [name |-> "mew", url |-> "https://pokeapi.co/api/v2/pokemon/151/"] >>],
      [count |-> 0, next |-> NONE, previous |-> NONE, results |-> <<>>] }

\* What requests.get(...).json() may raise.
Failures == {"ConnectionError", "JSONDecodeError"}

\* The outcome of a call: a returned value, or a raised exception.
Return(v) == [raised |-> NONE, value |-> v]
Raise(e) == [raised |-> e, value |-> NoPayload]

\* ------------------------------------------------------------------ clients
REAL == "PokemonAPIClient"
MOCK == "PokemonAPIClientMock"

\* PokemonAPIClient.__init__
PokemonAPIClient_init(api_url, timeout) ==
    [cls |-> REAL, api_url |-> api_url, timeout |-> timeout]

\* PokemonAPIClientMock() has no fields of its own.
PokemonAPIClientMock_init == [cls |-> MOCK, api_url |-> PyNone, timeout |-> PyNone]

\* The outcomes one call of client.get_all_pokemons() can have, and whether it
\* issues an HTTP request.
Client_get_all_pokemons(client) ==
    IF client.cls = MOCK
    THEN {[out |-> Return(MockPayload), http |-> 0]}
    ELSE {[out |-> Return(p), http |-> 1] : p \in RemotePayloads}
         \cup {[out |-> Raise(e), http |-> 1] : e \in Failures}

\* ------------------------------------------------------------------ service
\* PokemonService.__init__
PokemonService_init(client_id) == [pokemon_api_client |-> client_id]

\* A service that retries once when its client raises.
PokemonService_get_all_pokemons_retry(self, attempts) ==
    IF attempts[1].out.raised # NONE
    THEN [out |-> attempts[2].out, self |-> self, used |-> 2]
    ELSE [out |-> attempts[1].out, self |-> self, used |-> 1]

\* A service that answers with the fixture when its client raises.
PokemonService_get_all_pokemons_fallback(self, attempts) ==
    IF attempts[1].out.raised # NONE
    THEN [out |-> Return(MockPayload), self |-> self, used |-> 1]
    ELSE [out |-> attempts[1].out, self |-> self, used |-> 1]

\* PokemonService.get_all_pokemons: `attempts` is what successive calls of the
\* held client would do; the method makes one call and hands its outcome on.
PokemonService_get_all_pokemons(self, attempts) ==
    [out |-> attempts[1].out, self |-> self, used |-> 1]

\* ------------------------------------------------------------------ container
\* providers.Configuration(): nothing loaded yet.
NoConfig == [env |-> NONE, api_url |-> PyNone, timeout |-> PyNone]

\* Container(): an instance with its own copies of the three providers; the
\* Singleton has built nothing and is not overridden.
Container_init == [config |-> NoConfig, instance |-> 0, override |-> 0, wired |-> FALSE]

\* ConfigurationOption.from_env(name, default): os.environ.get(name, default).
from_env(value, default) == IF value = UNSET THEN default ELSE value

\* app_env or 'develop'
OrDefault(app_env) == IF app_env = NONE \/ app_env = "" THEN DEFAULT_ENV ELSE app_env

\* if container.config.env() == 'test'
UseMock(env) == env = "test"

\* A Singleton that builds a new object at every resolution.
Singleton_call_fresh(cont, heap) ==
    IF cont.override # 0
    THEN [id |-> cont.override, heap |-> heap, instance |-> cont.instance]
    ELSE [id |-> Len(heap) + 1,
          heap |-> Append(heap, PokemonAPIClient_init(cont.config.api_url,
                                                      cont.config.timeout)),
          instance |-> Len(heap) + 1]

\* A Singleton that ignores its override.
Singleton_call_no_override(cont, heap) ==
    IF cont.instance # 0
    THEN [id |-> cont.instance, heap |-> heap, instance |-> cont.instance]
    ELSE [id |-> Len(heap) + 1,
          heap |-> Append(heap, PokemonAPIClient_init(cont.config.api_url,
                                                      cont.config.timeout)),
          instance |-> Len(heap) + 1]

\* container.pokemon_api_client(): the overriding object when overridden,
\* else the instance built at the first resolution from config.api_url and
\* config.timeout as they are then.
Singleton_call(cont, heap) ==
    IF cont.override # 0
    THEN [id |-> cont.override, heap |-> heap, instance |-> cont.instance]
    ELSE IF cont.instance # 0
    THEN [id |-> cont.instance, heap |-> heap, instance |-> cont.instance]
    ELSE [id |-> Len(heap) + 1,
          heap |-> Append(heap, PokemonAPIClient_init(cont.config.api_url,
                                                      cont.config.timeout)),
          instance |-> Len(heap) + 1]

\* container.pokemon_service(): Factory(PokemonService, pokemon_api_client=...)
\* resolves the client provider and builds a new PokemonService around it.
Container_pokemon_service(c) ==
    LET r == Singleton_call(containers[c], clients)
    IN  /\ clients' = r.heap
        /\ containers' = [containers EXCEPT ![c].instance = r.instance]
        /\ services' = Append(services, PokemonService_init(r.id))
        /\ provided' = Append(provided, <<c, Len(services) + 1>>)

\* ------------------------------------------------------------------ factory
Cur == calls[Len(calls)]

\* pokemon_service_factory(app_env) is entered.
Factory_call(app_env) ==
    /\ pc = "idle"
    /\ Len(calls) < MaxCalls
    /\ calls' = Append(calls, [app_env |-> app_env, container |-> 0, service |-> 0])
    /\ pc' = "L164"
    /\ UNCHANGED <<environ, clients, services, containers, provided, last>>

\* container = Container()
Factory_L164 ==
    /\ pc = "L164"
    /\ containers' = Append(containers, Container_init)
    /\ calls' = [calls EXCEPT ![Len(calls)].container = Len(containers) + 1]
    /\ pc' = "L167"
    /\ UNCHANGED <<environ, clients, services, provided, last>>

\* container.config.env.from_env('APP_ENV', default=app_env or 'develop')
Factory_L167 ==
    /\ pc = "L167"
    /\ containers' = [containers EXCEPT ![Cur.container].config.env =
                          from_env(environ.APP_ENV, OrDefault(Cur.app_env))]
    /\ pc' = "L170"
    /\ UNCHANGED <<environ, clients, services, provided, calls, last>>

\* container.config.api_url.from_env('POKEMON_API_URL', default=...)
Factory_L170 ==
    /\ pc = "L170"
    /\ containers' = [containers EXCEPT ![Cur.container].config.api_url =
                          PyStr(from_env(environ.POKEMON_API_URL, DEFAULT_API_URL))]
    /\ pc' = "L174"
    /\ UNCHANGED <<environ, clients, services, provided, calls, last>>

\* container.config.timeout.from_env('REQUEST_TIMEOUT', default=5)
Factory_L174 ==
    /\ pc = "L174"
    /\ containers' = [containers EXCEPT ![Cur.container].config.timeout =
                          IF environ.REQUEST_TIMEOUT = UNSET
                          THEN DEFAULT_TIMEOUT
                          ELSE PyStr(environ.REQUEST_TIMEOUT)]
    /\ pc' = "L177"
    /\ UNCHANGED <<environ, clients, services, provided, calls, last>>

\* container.wire(modules=[__name__]): no provider is resolved.
Factory_L177 ==
    /\ pc = "L177"
    /\ containers' = [containers EXCEPT ![Cur.container].wired = TRUE]
    /\ pc' = "L180"
    /\ UNCHANGED <<environ, clients, services, provided, calls, last>>

\* if container.config.env() == 'test':
\*     container.pokemon_api_client.override(PokemonAPIClientMock())
Factory_L180 ==
    /\ pc = "L180"
    /\ IF UseMock(containers[Cur.container].config.env)
       THEN /\ clients' = Append(clients, PokemonAPIClientMock_init)
            /\ containers' = [containers EXCEPT ![Cur.container].override =
                                  Len(clients) + 1]
       ELSE UNCHANGED <<clients, containers>>
    /\ pc' = "L184"
    /\ UNCHANGED <<environ, services, provided, calls, last>>

\* return container.pokemon_service()
Factory_L184 ==
    /\ pc = "L184"
    /\ Container_pokemon_service(Cur.container)
    /\ calls' = [calls EXCEPT ![Len(calls)].service = Len(services) + 1]
    /\ pc' = "idle"
    /\ UNCHANGED <<environ, last>>

\* A further request to the pokemon_service provider of a container that has
\* been set up (the program is single-threaded: no factory call is running).
Container_request(c) ==
    /\ pc = "idle"
    /\ Len(services) < MaxServices
    /\ Container_pokemon_service(c)
    /\ UNCHANGED <<environ, calls, pc, last>>

\* service.get_all_pokemons() of the caller.
Service_call(s) ==
    /\ pc = "idle"
    /\ \E a1 \in Client_get_all_pokemons(clients[services[s].pokemon_api_client]) :
       \E a2 \in (IF PokemonService_get_all_pokemons(services[s], <<a1, a1>>).used > 1
                  THEN Client_get_all_pokemons(clients[services[s].pokemon_api_client])
                  ELSE {a1}) :
         LET r == PokemonService_get_all_pokemons(services[s], <<a1, a2>>)
         IN  /\ last' = [service |-> s,
                         client |-> services[s].pokemon_api_client,
                         client_out |-> a1.out,
                         out |-> r.out,
                         client_calls |-> r.used,
                         http |-> IF r.used = 2 THEN a1.http + a2.http ELSE a1.http]
             /\ services' = [services EXCEPT ![s] = r.self]
    /\ UNCHANGED <<environ, clients, containers, provided, calls, pc>>

NoCall == [service |-> 0, client |-> 0, client_out |-> Return(NoPayload),
           out |-> Return(NoPayload), client_calls |-> 0, http |-> 0]

DIInit ==
    /\ environ \in {[APP_ENV |-> e, POKEMON_API_URL |-> s.POKEMON_API_URL,
                      REQUEST_TIMEOUT |-> s.REQUEST_TIMEOUT] :
                         e \in AppEnvVar, s \in ApiSettings}
    /\ clients = <<>>
    /\ services = <<>>
    /\ containers = <<>>
    /\ provided = <<>>
    /\ calls = <<>>
    /\ pc = "idle"
    /\ last = NoCall

MockIdle ==
    /\ module_fn = [patched |-> FALSE, return_value |-> [kind |-> "MagicMock", results |-> <<>>]]
    /\ mservices = <<>>
    /\ mlog = <<>>

Init == DIInit /\ MockIdle

FactoryCall == \E a \in Overrides : Factory_call(a) /\ UNCHANGED mockVars
FactoryL164 == Factory_L164 /\ UNCHANGED mockVars
FactoryL167 == Factory_L167 /\ UNCHANGED mockVars
FactoryL170 == Factory_L170 /\ UNCHANGED mockVars
FactoryL174 == Factory_L174 /\ UNCHANGED mockVars
FactoryL177 == Factory_L177 /\ UNCHANGED mockVars
FactoryL180 == Factory_L180 /\ UNCHANGED mockVars
FactoryL184 == Factory_L184 /\ UNCHANGED mockVars
ContainerRequest == \E c \in 1..Len(containers) : Container_request(c) /\ UNCHANGED mockVars
ServiceCall == \E s \in 1..Len(services) : Service_call(s) /\ UNCHANGED mockVars

Next ==
    \/ FactoryCall
    \/ FactoryL164
    \/ FactoryL167
    \/ FactoryL170
    \/ FactoryL174
    \/ FactoryL177
    \/ FactoryL180
    \/ FactoryL184
    \/ ContainerRequest
    \/ ServiceCall

Spec == Init /\ [][Next]_vars

\* ------------------------------------------------------------------ mock_example
\* Values in the patching example: the dict a call returns, or the child
\* MagicMock a stand-in returns while no return_value has been set.
Dict(results) == [kind |-> "dict", results |-> results]
ChildMock == [kind |-> "MagicMock", results |-> <<>>]

\* 'results': [i for i in range(20)]
RangeLen == 20
TestReturnValue == Dict([i \in 1..RangeLen |-> i - 1])

StandInValues == {TestReturnValue, Dict(<<>>)}
RemoteDicts == {Dict(<<"bulbasaur">>)}

MReturn(v) == [raised |-> NONE, value |-> v]
MRaise(e) == [raised |-> e, value |-> Dict(<<>>)]

\* The module attribute app.main.get_all_pokemons: the function defined in
\* the module, or the MagicMock that mock.patch put in its place.
RealFn == [patched |-> FALSE, return_value |-> ChildMock]
StandIn(v) == [patched |-> TRUE, return_value |-> v]

\* What calling the object bound to the name can do, and whether the
\* HTTP-requesting function body runs.
Fn_call(fn) ==
    IF fn.patched
    THEN {[out |-> MReturn(fn.return_value), real |-> FALSE]}
    ELSE {[out |-> MReturn(d), real |-> TRUE] : d \in RemoteDicts}
         \cup {[out |-> MRaise(e), real |-> TRUE] : e \in Failures}

\* A method that uses the function object the name had when the service was
\* created.
Global_lookup_early(self, module) == self.bound_at_init

\* `get_all_pokemons` inside PokemonService.get_all_pokemons is a global
\* name: it is looked up in the module when the method runs.
Global_lookup(self, module) == module

\* PokemonService(): the object has no fields; bound_at_init is history, what
\* the module name was bound to when the object was created.
Mock_new_service ==
    /\ Len(mservices) < MaxMockServices
    /\ mservices' = Append(mservices, [bound_at_init |-> module_fn])
    /\ UNCHANGED <<module_fn, mlog>>

\* @mock.patch('app.main.get_all_pokemons') starts: the name is rebound to a
\* new MagicMock.
Patch_start ==
    /\ ~module_fn.patched
    /\ module_fn' = StandIn(ChildMock)
    /\ UNCHANGED <<mservices, mlog>>

\* mock_get_all_pokemons.return_value = {...}
Patch_set_return_value(v) ==
    /\ module_fn.patched
    /\ module_fn' = StandIn(v)
    /\ UNCHANGED <<mservices, mlog>>

\* The patch ends with the test method: the name is bound to the function again.
Patch_stop ==
    /\ module_fn.patched
    /\ module_fn' = RealFn
    /\ UNCHANGED <<mservices, mlog>>

\* self.pokemon_service.get_all_pokemons(): return get_all_pokemons()
Mock_service_call(s) ==
    /\ Len(mlog) < MaxMockCalls
    /\ \E r \in Fn_call(Global_lookup(mservices[s], module_fn)) :
         mlog' = Append(mlog, [service |-> s, fn |-> module_fn,
                               out |-> r.out, real |-> r.real])
    /\ UNCHANGED <<module_fn, mservices>>

DIIdle ==
    /\ environ = [APP_ENV |-> UNSET, POKEMON_API_URL |-> UNSET, REQUEST_TIMEOUT |-> UNSET]
    /\ clients = <<>>
    /\ services = <<>>
    /\ containers = <<>>
    /\ provided = <<>>
    /\ calls = <<>>
    /\ pc = "idle"
    /\ last = NoCall

MockInit == DIIdle /\ MockIdle

MockNewService == Mock_new_service /\ UNCHANGED diVars
PatchStart == Patch_start /\ UNCHANGED diVars
PatchSetReturnValue == \E v \in StandInValues : Patch_set_return_value(v) /\ UNCHANGED diVars
PatchStop == Patch_stop /\ UNCHANGED diVars
MockServiceCall == \E s \in 1..Len(mservices) : Mock_service_call(s) /\ UNCHANGED diVars

MockNext ==
    \/ MockNewService
    \/ PatchStart
    \/ PatchSetReturnValue
    \/ PatchStop
    \/ MockServiceCall

MockSpec == MockInit /\ [][MockNext]_vars

\* ------------------------------------------------------------------ properties
Done(i) == calls[i].service # 0
ServiceOf(i) == services[calls[i].service]
ClientOf(i) == clients[ServiceOf(i).pokemon_api_client]
Selector(i) == containers[calls[i].container].config.env
Provided(o) == o # NONE /\ o # ""

\* assertEqual(len(pokemons['results']), 20)
ExpectedResults == 20

\* C1: every pokemon_service_factory(app_env='test') returns a service whose
\* client is PokemonAPIClientMock, whatever the environment variables are, and
\* get_all_pokemons() on it returns the fixture payload without a request.
C1_TestOverrideBindsFixture ==
    \A i \in 1..Len(calls) :
        (Done(i) /\ calls[i].app_env = "test") =>
            /\ ClientOf(i).cls = MOCK
            /\ last.service = calls[i].service =>
                   (last.out = Return(MockPayload) /\ last.http = 0)

\* C2: the selector is the override when one is given, else APP_ENV when it is
\* set, else 'develop'.
C2_OverrideTakesPrecedence ==
    \A i \in 1..Len(calls) :
        Done(i) =>
            Selector(i) = IF Provided(calls[i].app_env) THEN calls[i].app_env
                          ELSE IF environ.APP_ENV # UNSET THEN environ.APP_ENV
                          ELSE "develop"

\* C3: a call whose override is not exactly 'test' (or absent) returns a
\* service whose client is the network-backed PokemonAPIClient, built with
\* POKEMON_API_URL or the default URL and REQUEST_TIMEOUT or 5; with nothing
\* set and no override the selector is 'develop'.
C3_OtherOverrideBindsNetworkClient ==
    \A i \in 1..Len(calls) :
        (Done(i) /\ calls[i].app_env # "test") =>
            /\ ClientOf(i).cls = REAL
            /\ ClientOf(i).api_url =
                   PyStr(IF environ.POKEMON_API_URL # UNSET
                         THEN environ.POKEMON_API_URL ELSE DEFAULT_API_URL)
            /\ ClientOf(i).timeout =
                   (IF environ.REQUEST_TIMEOUT # UNSET
                    THEN PyStr(environ.REQUEST_TIMEOUT) ELSE DEFAULT_TIMEOUT)
            /\ (environ.APP_ENV = UNSET /\ calls[i].app_env = NONE) =>
                   Selector(i) = "develop"

\* C4: two calls of the factory with different overrides each bind the client
\* variant their own override selects.
C4_EachCallBindsItsOwnVariant ==
    \A i, j \in 1..Len(calls) :
        (i < j /\ Done(i) /\ Done(j) /\ calls[i].app_env # calls[j].app_env) =>
            /\ ClientOf(i).cls = (IF calls[i].app_env = "test" THEN MOCK ELSE REAL)
            /\ ClientOf(j).cls = (IF calls[j].app_env = "test" THEN MOCK ELSE REAL)

\* C5: PokemonService.get_all_pokemons() returns exactly what one call of the
\* bound client's get_all_pokemons() returned, for either client class, and
\* leaves the service's client reference as it was.
C5_PureDelegation ==
    last.service # 0 =>
        /\ last.out = last.client_out
        /\ last.client_calls = 1
        /\ last.http = (IF clients[last.client].cls = REAL THEN 1 ELSE 0)
        /\ services[last.service].pokemon_api_client = last.client

C5_Witness ==
    /\ last.service # 0
    /\ clients[last.client].cls = REAL
    /\ last.client_out.raised = NONE
    /\ last.client_out.value.count = 1

\* C6: when the client's get_all_pokemons() raises, the same failure reaches
\* the caller of the service: no retry, no partial payload, no fixture in its
\* place; the fixture is returned only by a service whose container resolved
\* the selector 'test'.
C6_FailureSurfacesUnchanged ==
    /\ (last.service # 0 /\ last.client_out.raised # NONE) =>
           /\ last.out.raised = last.client_out.raised
           /\ last.out.value = NoPayload
           /\ last.http = 1
    /\ (last.service # 0 /\ last.out = Return(MockPayload)) =>
           /\ clients[last.client].cls = MOCK
           /\ \A k \in 1..Len(provided) :
                  provided[k][2] = last.service =>
                      containers[provided[k][1]].config.env = "test"

C6_Witness ==
    /\ last.service # 0
    /\ last.client_out.raised = "ConnectionError"
    /\ last.out.raised = "ConnectionError"

\* C7: the payload of PokemonAPIClientMock.get_all_pokemons(), also through a
\* service, has a 'results' sequence of exactly 20 elements.
C7_FixtureHasTwentyResults ==
    (last.service # 0 /\ clients[last.client].cls = MOCK) =>
        Len(last.out.value.results) = ExpectedResults

\* C8: within one container every request to pokemon_service made a new
\* PokemonService, all of them hold the one client of that container (built
\* at most once), and a service has no field but its client reference.
C8_FreshServicesShareOneClient ==
    /\ \A i, j \in 1..Len(provided) :
           /\ i # j => provided[i][2] # provided[j][2]
           /\ provided[i][1] = provided[j][1] =>
                  services[provided[i][2]].pokemon_api_client =
                      services[provided[j][2]].pokemon_api_client
    /\ \A k \in 1..Len(clients) :
           clients[k].cls = REAL =>
               \E c \in 1..Len(containers) : containers[c].instance = k
    /\ \A s \in 1..Len(services) : DOMAIN services[s] = {"pokemon_api_client"}

C8_Witness ==
    \E i, j \in 1..Len(provided) :
        /\ i # j
        /\ provided[i][1] = provided[j][1]
        /\ clients[services[provided[i][2]].pokemon_api_client].cls = REAL
        /\ services[provided[i][2]].pokemon_api_client =
               services[provided[j][2]].pokemon_api_client

\* C9: while app.main.get_all_pokemons is patched with a stand-in returning
\* V, a service (also one created before the patch) returns V and the real
\* function does not run; with the patch removed the service runs the real
\* function again.
C9_PatchSeenAtCallTime ==
    \A k \in 1..Len(mlog) :
        IF mlog[k].fn.patched
        THEN mlog[k].out = MReturn(mlog[k].fn.return_value) /\ ~mlog[k].real
        ELSE mlog[k].real

C9_Witness ==
    \E k, n \in 1..Len(mlog) :
        /\ k < n
        /\ mlog[k].service = mlog[n].service
        /\ ~mservices[mlog[k].service].bound_at_init.patched
        /\ mlog[k].fn = StandIn(TestReturnValue)
        /\ mlog[k].out = MReturn(TestReturnValue)
        /\ ~mlog[n].fn.patched
        /\ mlog[n].real

\* C10: in a container whose resolved selector is 'test' the Singleton never
\* builds a PokemonAPIClient, at any step of the factory or later, and no
\* service of that container holds one.
C10_NoRealClientUnderTest ==
    \A c \in 1..Len(containers) :
        containers[c].config.env = "test" =>
            /\ containers[c].instance = 0
            /\ \A k \in 1..Len(provided) :
                   provided[k][1] = c =>
                       clients[services[provided[k][2]].pokemon_api_client].cls = MOCK

C10_Witness ==
    \E i \in 1..Len(calls) :
        /\ Done(i)
        /\ Selector(i) = "test"
        /\ containers[calls[i].container].override # 0
        /\ ClientOf(i).cls = MOCK

====
